---- MODULE Spec2Model ----
(***************************************************************************)
(* A model of src/src/markov.rs: MarkovModel<T>, its construction          *)
(* (MarkovModel::from), its stateful sampling (MarkovModel::next) and its  *)
(* reset (MarkovModel::initialize).                                        *)
(*                                                                         *)
(* Tokens are the integers 1..NumTokens under their usual order (T: Ord).  *)
(* Vec indices are 0-based as in the source; a Vec is a TLA+ sequence, so  *)
(* the Vec entry v[i] is v[i + 1] here.                                    *)
(*                                                                         *)
(* An f32 in [0, 8) is the integer number of units of 2^-28 it holds; the  *)
(* f32 operations round to 24 significant bits, ties to even, as IEEE 754  *)
(* binary32 does.  The grid is exact for every value >= 2^-5.              *)
(***************************************************************************)
EXTENDS Integers, Sequences, FiniteSets, TLC

\* ---- bounds of the model ------------------------------------------------
MaxLen == 4
NumTokens == 3
MaxCount == 4

Tokens == 1..NumTokens

\* ---- f32 arithmetic -----------------------------------------------------
One == 2^28
Half == 2^27
Grid == 2^4
F09 == 15099494 * Grid
FMax == One - Grid

\* the weight of the last of the 24 significant bits of a value x > 0
Ulp(x) ==
    LET e == CHOOSE k \in 0..30 : x \div 2^k = 1
    IN  IF e <= 23 THEN 1 ELSE 2^(e - 23)

\* the f32 nearest to the exact value s, ties to even
RoundToF32(s) ==
    IF s = 0 THEN 0
    ELSE LET q == Ulp(s)
             m == s \div q
             r == s % q
         IN  IF 2 * r > q \/ (2 * r = q /\ m % 2 = 1)
             THEN (m + 1) * q
             ELSE m * q

\* a + b in f32: the exact sum, bound as a value, then rounded
FAdd(a, b) == CHOOSE r \in {RoundToF32(s) : s \in {a + b}} : TRUE

\* the integer part and the remainder of c * One / d, without forming c * One
QuoOne(c, d) == c * (One \div d) + (c * (One % d)) \div d
RemOne(c, d) == (c * (One % d)) % d

\* (c as f32) / (n as f32) for integers 0 <= c <= n, 0 < n: the exact
\* quotient rounded to nearest, ties to even
FDiv(c, n) ==
    IF c = 0 THEN 0
    ELSE LET q == Ulp(QuoOne(c, n))
             m == QuoOne(c, n * q)
             r == RemOne(c, n * q)
         IN  IF 2 * r > n * q \/ (2 * r = n * q /\ m % 2 = 1)
             THEN (m + 1) * q
             ELSE m * q

\* ---- MarkovModel::from --------------------------------------------------
\* Vec::sort
RECURSIVE Insert(_, _)
Insert(s, x) ==
    IF s = <<>> THEN <<x>>
    ELSE IF x < Head(s) THEN <<x>> \o s
    ELSE <<Head(s)>> \o Insert(Tail(s), x)

\* a sort that is left out
SortOmitted(s) == s

RECURSIVE Sort(_)
Sort(s) ==
    IF s = <<>> THEN <<>>
    ELSE Insert(Sort(SubSeq(s, 1, Len(s) - 1)), s[Len(s)])

\* Vec::dedup: removes consecutive repeated elements
RECURSIVE Dedup(_)
Dedup(s) ==
    IF Len(s) <= 1 THEN s
    ELSE LET d == Dedup(SubSeq(s, 1, Len(s) - 1))
         IN  IF d[Len(d)] = s[Len(s)] THEN d ELSE Append(d, s[Len(s)])

NonDupElements(elems) == Dedup(Sort(elems))

\* iter().position(|t| token == *t); NoIndex stands for Option::None
NoIndex == 0 - 1

Position(dom, token) ==
    LET hits == {i \in 0..(Len(dom) - 1) : dom[i + 1] = token}
    IN  IF hits = {} THEN NoIndex
        ELSE CHOOSE i \in hits : \A h \in hits : i <= h

ZeroMatrix(n) == [i \in 1..n |-> [j \in 1..n |-> 0]]

\* a loop that counts each pair in the row of its second token
RECURSIVE FreqLoopTransposed(_, _, _, _, _)
FreqLoopTransposed(elems, dom, k, pre, freq) ==
    IF k > Len(elems) THEN freq
    ELSE LET cur_index == Position(dom, elems[k])
         IN  FreqLoopTransposed(elems, dom, k + 1, cur_index,
                      IF pre = NoIndex THEN freq
                      ELSE [freq EXCEPT ![cur_index + 1][pre + 1] = @ + 1])

\* the loop over the tokens: state_freq after tokens k.. are consumed
RECURSIVE FreqLoop(_, _, _, _, _)
FreqLoop(elems, dom, k, pre, freq) ==
    IF k > Len(elems) THEN freq
    ELSE LET cur_index == Position(dom, elems[k])
         IN  FreqLoop(elems, dom, k + 1, cur_index,
                      IF pre = NoIndex THEN freq
                      ELSE [freq EXCEPT ![pre + 1][cur_index + 1] = @ + 1])

\* a count that also pairs the last token with the first
StateFreqWrap(elems, dom) ==
    FreqLoop(elems, dom, 1,
             IF elems = <<>> THEN NoIndex ELSE Position(dom, elems[Len(elems)]),
             ZeroMatrix(Len(dom)))

StateFreq(elems, dom) ==
    FreqLoop(elems, dom, 1, NoIndex, ZeroMatrix(Len(dom)))

\* vector.iter().fold(0, |acc, cur| acc + cur)
RECURSIVE IntSum(_)
IntSum(vector) ==
    IF vector = <<>> THEN 0
    ELSE IntSum(SubSeq(vector, 1, Len(vector) - 1)) + vector[Len(vector)]

\* an inner loop that stores each probability without accumulating it
RECURSIVE CmLoopPlain(_, _, _)
CmLoopPlain(vector, row_sum, j) ==
    IF j = 0 THEN <<>>
    ELSE IF row_sum # 0
    THEN Append(CmLoopPlain(vector, row_sum, j - 1), FDiv(vector[j], row_sum))
    ELSE Append(CmLoopPlain(vector, row_sum, j - 1), 0)

\* the inner loop: the first j entries of the row of cm_dist
RECURSIVE CmLoop(_, _, _)
CmLoop(vector, row_sum, j) ==
    IF j = 0 THEN <<>>
    ELSE LET before == CmLoop(vector, row_sum, j - 1)
             cumulative_p == IF j = 1 THEN 0 ELSE before[j - 1]
         IN  IF row_sum # 0
             THEN Append(before, FAdd(cumulative_p, FDiv(vector[j], row_sum)))
             ELSE Append(before, 0)

CmRow(vector) == CmLoop(vector, IntSum(vector), Len(vector))

CmDist(freq) == [i \in 1..Len(freq) |-> CmRow(freq[i])]

\* a construction that leaves the cursor on the first index
FromModelAnchored(elems) ==
    LET non_dup_elements == NonDupElements(elems)
    IN  [elements  |-> non_dup_elements,
         cm_dist   |-> CmDist(StateFreq(elems, non_dup_elements)),
         pre_index |-> 0]

\* MarkovModel::from as a function of the training sequence
FromModel(elems) ==
    LET non_dup_elements == NonDupElements(elems)
        elements_len == Len(non_dup_elements)
    IN  [elements  |-> non_dup_elements,
         cm_dist   |-> CmDist(StateFreq(elems, non_dup_elements)),
         pre_index |-> elements_len]

\* ---- MarkovModel::next and MarkovModel::initialize ----------------------
\* a liveness test that looks at the first entry of the row only
RowSumFirst(row) == IF row = <<>> THEN 0 ELSE row[1]

\* a liveness test that leaves the last entry of the row out of the sum
RECURSIVE SumBefore(_, _)
SumBefore(row, n) ==
    IF n = 0 THEN 0 ELSE FAdd(SumBefore(row, n - 1), row[n])

RowSumSkipLast(row) ==
    IF row = <<>> THEN 0 ELSE SumBefore(row, Len(row) - 1)

\* self.cm_dist[i].iter().fold(0.0, |acc, cur| acc + cur)
RECURSIVE RowSum(_)
RowSum(row) ==
    IF row = <<>> THEN 0
    ELSE FAdd(RowSum(SubSeq(row, 1, Len(row) - 1)), row[Len(row)])

\* a scan that compares with < instead of <=
RECURSIVE ScanFromStrict(_, _, _)
ScanFromStrict(row, fv, i) ==
    IF i >= Len(row) THEN Len(row) - 1
    ELSE IF fv < row[i + 1] THEN i
    ELSE ScanFromStrict(row, fv, i + 1)

\* the scan of the row: the first index whose entry is >= fv, else the last
RECURSIVE ScanFrom(_, _, _)
ScanFrom(row, fv, i) ==
    IF i >= Len(row) THEN Len(row) - 1
    ELSE IF fv <= row[i + 1] THEN i
    ELSE ScanFrom(row, fv, i + 1)

\* a scan that reports its index counted from one
ScanRowOneBased(row, fv) == ScanFrom(row, fv, 0) + 1

ScanRow(row, fv) == ScanFrom(row, fv, 0)

\* a reset that stores one past the sentinel
InitializeIndexPast(elems) == Len(elems) + 1

\* a reset that stores the first index instead of the sentinel
InitializeIndexFirst(elems) == 0

\* the cursor initialize() stores
InitializeIndex(elems) == Len(elems)

\* the width of usize; rng.gen::<usize>() is uniform over 0..2^UsizeBits - 1
UsizeBits == 64

RECURSIVE PowMod(_, _, _)
PowMod(b, e, n) == IF e = 0 THEN 1 % n ELSE (b * PowMod(b, e - 1, n)) % n

\* rng.gen::<usize>() % n: the number of values of usize that give the
\* index i, less the whole part of 2^UsizeBits / n that every index has
DrawWeightExcess(i, n) == IF i < PowMod(2, UsizeBits, n) THEN 1 ELSE 0

\* ---- inputs -------------------------------------------------------------
\* every training sequence of at most MaxLen tokens
ShortSeqs == UNION {[1..n -> Tokens] : n \in 0..MaxLen}

RECURSIVE Rep(_, _)
Rep(s, n) == IF n = 0 THEN <<>> ELSE s \o Rep(s, n - 1)

\* a training sequence in which token 1 is followed c[j] times by token j
RECURSIVE Spokes(_, _)
Spokes(c, j) ==
    IF j < 2 THEN <<>> ELSE Spokes(c, j - 1) \o Rep(<<j, 1>>, c[j])

HubSeq(c) == <<1>> \o Rep(<<1>>, c[1]) \o Spokes(c, Len(c))

HubSeqs == {HubSeq(c) : c \in [Tokens -> 0..MaxCount]}

\* the training sequence [a, b, a, c, a, b]
ExampleSeq == <<1, 2, 1, 3, 1, 2>>

\* a training sequence whose first row sums in f32 to 1 - 2^-23, below the
\* largest draw
WideCounts == <<14, 3, 3, 3>>

WideSeq == HubSeq(WideCounts)

TrainingSeqs == ShortSeqs \cup HubSeqs \cup {ExampleSeq, WideSeq}

\* the largest domain size of a training sequence
MaxDomain ==
    IF NumTokens > Len(WideCounts) THEN NumTokens ELSE Len(WideCounts)

\* the values rng.gen::<f32>() is drawn from for a row: multiples of 2^-24
\* in [0, 1), among them the entries of the row and the next value above
FDraws(row) ==
    {0, Half, F09, FMax}
    \cup {x \in {row[j] : j \in 1..Len(row)}
               \cup {row[j] + Grid : j \in 1..Len(row)} :
            x >= 0 /\ x < One /\ x % Grid = 0}

\* ---- state --------------------------------------------------------------
VARIABLES
    seq,          \* the training sequence given to from()
    pc,           \* "start", "idle", "loop", "sample" or "panic"
    elements,     \* MarkovModel.elements
    cm_dist,      \* MarkovModel.cm_dist
    pre_index,    \* MarkovModel.pre_index
    row_index,    \* next(): the row the loop left with
    f,            \* next(): the draw rng.gen::<f32>()
    ret,          \* the token the last next() returned, 0 before any
    lastOp,       \* the last operation that returned
    call_cursor,  \* pre_index when the running or last next() was called
    drew          \* whether that next() drew a random row

vars == <<seq, pc, elements, cm_dist, pre_index, row_index, f, ret, lastOp,
          call_cursor, drew>>

Init ==
    /\ seq \in TrainingSeqs
    /\ pc = "start"
    /\ elements = <<>>
    /\ cm_dist = <<>>
    /\ pre_index = 0
    /\ row_index = 0
    /\ f = 0
    /\ ret = 0
    /\ lastOp = "none"
    /\ call_cursor = 0
    /\ drew = FALSE

\* MarkovModel::from(seq)
From ==
    /\ pc = "start"
    /\ LET m == FromModel(seq) IN
        /\ elements' = m.elements
        /\ cm_dist' = m.cm_dist
        /\ pre_index' = m.pre_index
    /\ pc' = "idle"
    /\ lastOp' = "from"
    /\ UNCHANGED <<seq, row_index, f, ret, call_cursor, drew>>

\* next() is entered
CallNext ==
    /\ pc = "idle"
    /\ pc' = "loop"
    /\ call_cursor' = pre_index
    /\ drew' = FALSE
    /\ UNCHANGED <<seq, elements, cm_dist, pre_index, row_index, f, ret,
                   lastOp>>

\* an iteration that finds a dead row and does not call initialize()
TryRowNoReset(i) ==
    IF i >= Len(cm_dist)
    THEN /\ pc' = "panic"
         /\ UNCHANGED <<pre_index, row_index>>
    ELSE IF RowSum(cm_dist[i + 1]) = 0
    THEN /\ pc' = "loop"
         /\ UNCHANGED <<pre_index, row_index>>
    ELSE /\ row_index' = i
         /\ pc' = "sample"
         /\ UNCHANGED pre_index

\* the rest of one iteration of the loop once the candidate row i is chosen
TryRow(i) ==
    IF i >= Len(cm_dist)
    THEN /\ pc' = "panic"
         /\ UNCHANGED <<pre_index, row_index>>
    ELSE IF RowSum(cm_dist[i + 1]) = 0
    THEN /\ pre_index' = InitializeIndex(elements)
         /\ pc' = "loop"
         /\ UNCHANGED row_index
    ELSE /\ row_index' = i
         /\ pc' = "sample"
         /\ UNCHANGED pre_index

\* one iteration of the loop with the cursor on a row
LoopCursor ==
    /\ pc = "loop"
    /\ pre_index # Len(elements)
    /\ TryRow(pre_index)
    /\ UNCHANGED <<seq, elements, cm_dist, f, ret, lastOp, call_cursor, drew>>

\* one iteration of the loop with the cursor on the sentinel, when
\* rng.gen::<usize>() is u; the remainder by zero panics.  u stands for
\* every value of usize with the same remainder (DrawWeightExcess counts
\* them).
LoopDraw(u) ==
    /\ pc = "loop"
    /\ pre_index = Len(elements)
    /\ IF Len(elements) = 0
       THEN /\ u = 0
            /\ pc' = "panic"
            /\ UNCHANGED <<pre_index, row_index>>
       ELSE /\ u < Len(elements)
            /\ TryRow(u % Len(elements))
    /\ drew' = TRUE
    /\ UNCHANGED <<seq, elements, cm_dist, f, ret, lastOp, call_cursor>>

\* the draw of f, the scan of the row, and the return
SampleWith(fv) ==
    /\ f' = fv
    /\ LET row == cm_dist[row_index + 1]
           cur_index == ScanRow(row, fv)
       IN  IF Len(row) = 0 \/ cur_index >= Len(elements)
           THEN /\ pc' = "panic"
                /\ pre_index' = IF Len(row) = 0 THEN pre_index ELSE cur_index
                /\ UNCHANGED <<ret, lastOp>>
           ELSE /\ pre_index' = cur_index
                /\ ret' = elements[cur_index + 1]
                /\ lastOp' = "next"
                /\ pc' = "idle"
    /\ UNCHANGED <<seq, elements, cm_dist, row_index, call_cursor, drew>>

Sample ==
    /\ pc = "sample"
    /\ \E fv \in FDraws(cm_dist[row_index + 1]) : SampleWith(fv)

\* a reset that also clears the table
InitializeClearing ==
    /\ pc = "idle"
    /\ pre_index' = InitializeIndex(elements)
    /\ cm_dist' = ZeroMatrix(Len(elements))
    /\ lastOp' = "initialize"
    /\ UNCHANGED <<seq, pc, elements, row_index, f, ret, call_cursor, drew>>

\* MarkovModel::initialize()
Initialize ==
    /\ pc = "idle"
    /\ pre_index' = InitializeIndex(elements)
    /\ lastOp' = "initialize"
    /\ UNCHANGED <<seq, pc, elements, cm_dist, row_index, f, ret,
                   call_cursor, drew>>

Next ==
    \/ From
    \/ CallNext
    \/ LoopCursor
    \/ \E u \in 0..(MaxDomain - 1) : LoopDraw(u)
    \/ Sample
    \/ Initialize

Spec == Init /\ [][Next]_vars

\* A call of next() that has started keeps running, and the random row draw
\* is fair: every index stays possible in every iteration of the loop.
FairSpec ==
    /\ Spec
    /\ WF_vars(LoopCursor)
    /\ \A u \in 0..(MaxDomain - 1) : WF_vars(LoopDraw(u))
    /\ WF_vars(Sample)

\* ---- vocabulary of the properties -------------------------------------
Built == pc # "start"
DomainSize == Len(elements)
Returned == pc = "idle" /\ lastOp = "next"
RowIsZero(row) == \A j \in 1..Len(row) : row[j] = 0
RowIsLive(row) == \E j \in 1..Len(row) : row[j] # 0
NonDecreasing(row) == \A j \in 1..(Len(row) - 1) : row[j] <= row[j + 1]
Range(s) == {s[k] : k \in 1..Len(s)}
Abs(x) == IF x < 0 THEN 0 - x ELSE x

\* ---- C1 ------------------------------------------------------------------
\* C1: construction from an empty training sequence fails: from() never
\* returns a model whose domain size is zero, and no next() reaches the
\* remainder by zero.
C1_EmptySequenceRejected ==
    /\ Built => DomainSize # 0
    /\ ~(pc = "panic" /\ DomainSize = 0)

\* ---- C2 ------------------------------------------------------------------
\* C2: for a model built from a training sequence of length 1, every call of
\* next() that has entered the retry loop returns.
C2_SingleTokenNextReturns ==
    (Len(seq) = 1 /\ pc = "loop") ~> (pc = "idle")

\* ---- C3 ------------------------------------------------------------------
\* C3: a model built from a training sequence of length >= 2 has a live row,
\* and under a fair row draw every call of next() leaves the retry loop and
\* returns, whatever the cursor was.
C3_LongSequenceNextReturns ==
    /\ []((Built /\ Len(seq) >= 2) =>
            \E i \in 1..Len(cm_dist) : RowIsLive(cm_dist[i]))
    /\ ((Len(seq) >= 2 /\ pc = "loop") ~> (pc = "idle" /\ lastOp = "next"))

\* a next() on a model of a sequence of length >= 2 that was called with the
\* cursor on a dead row, redrew, and returned
C3_Witness ==
    /\ Len(seq) >= 2
    /\ Returned
    /\ call_cursor # DomainSize
    /\ RowIsZero(cm_dist[call_cursor + 1])
    /\ drew

\* ---- C4 ------------------------------------------------------------------
\* C4: on a model built from a non-empty sequence next() never panics, the
\* row it samples from and the index it selects are below the domain size,
\* and it returns the domain token at the index it leaves in the cursor.
C4_NextNeverPanics ==
    Len(seq) > 0 =>
        /\ pc # "panic"
        /\ pc = "sample" => row_index < DomainSize /\ row_index < Len(cm_dist)
        /\ Returned =>
            /\ row_index < DomainSize
            /\ pre_index < DomainSize
            /\ ret = elements[pre_index + 1]

\* a next() that returned after an initialize() and an earlier next()
C4_Witness ==
    /\ Returned
    /\ drew
    /\ call_cursor = DomainSize
    /\ pre_index < DomainSize
    /\ ret = elements[pre_index + 1]
    /\ DomainSize >= 2

\* ---- C5 ------------------------------------------------------------------
\* C5: in every state of a constructed model, the states inside the retry
\* loop included, the cursor is in [0, domain size], and right after
\* construction it is the domain size.
C5_CursorInRange ==
    Built =>
        /\ pre_index \in 0..DomainSize
        /\ lastOp = "from" => pre_index = DomainSize

\* inside the retry loop, after the reset of a cursor that was on a dead row
C5_Witness ==
    /\ pc = "loop"
    /\ call_cursor # DomainSize
    /\ pre_index = DomainSize

\* ---- C6 ------------------------------------------------------------------
\* the sequence s with its entries k and k + 1 exchanged
SwapAt(s, k) ==
    [n \in 1..Len(s) |-> IF n = k THEN s[k + 1]
                         ELSE IF n = k + 1 THEN s[k] ELSE s[n]]

\* C6: the domain holds exactly the distinct tokens of the training
\* sequence, each once, in strictly increasing order; its size is their
\* number; a permutation of the training sequence gives the same domain.
C6_DomainSortedDistinct ==
    (lastOp = "from" /\ Len(seq) >= 1) =>
        /\ Range(elements) = Range(seq)
        /\ \A k \in 1..(Len(elements) - 1) : elements[k] < elements[k + 1]
        /\ DomainSize = Cardinality(Range(seq))
        /\ \A k \in 1..(Len(seq) - 1) :
               NonDupElements(SwapAt(seq, k)) = elements

\* a domain built from an unsorted sequence with a repeated token
C6_Witness ==
    /\ lastOp = "from"
    /\ DomainSize >= 2
    /\ Len(seq) > DomainSize
    /\ \E k \in 1..(Len(seq) - 1) : seq[k] > seq[k + 1]

\* ---- C7 ------------------------------------------------------------------
\* C7 as stated: the table is square, and every row is entirely zero or is
\* non-decreasing with final entry equal to 1.
C7_RowsEndAtExactlyOne ==
    (Built /\ Len(seq) >= 1) =>
        /\ Len(cm_dist) = DomainSize
        /\ \A i \in 1..Len(cm_dist) :
            /\ Len(cm_dist[i]) = DomainSize
            /\ \/ RowIsZero(cm_dist[i])
               \/ /\ NonDecreasing(cm_dist[i])
                  /\ cm_dist[i][DomainSize] = One

\* C7 amended: the table is square, and every row is entirely zero or is
\* non-decreasing with final entry within (domain size) * 2^-24 of 1.
C7_RowsEndNearOne ==
    (Built /\ Len(seq) >= 1) =>
        /\ Len(cm_dist) = DomainSize
        /\ \A i \in 1..Len(cm_dist) :
            /\ Len(cm_dist[i]) = DomainSize
            /\ \/ RowIsZero(cm_dist[i])
               \/ /\ NonDecreasing(cm_dist[i])
                  /\ Abs(cm_dist[i][DomainSize] - One) <= DomainSize * Grid

\* a table with a live row whose final entry is not 1
C7_Witness ==
    /\ Built
    /\ \E i \in 1..Len(cm_dist) :
           RowIsLive(cm_dist[i]) /\ cm_dist[i][DomainSize] # One

\* ---- C8 ------------------------------------------------------------------
\* the number of positions t < n - 1 with seq[t] = domain[i], seq[t+1] =
\* domain[j] (i and j counted from 1)
PairCount(i, j) ==
    Cardinality({t \in 1..(Len(seq) - 1) :
                    seq[t] = elements[i] /\ seq[t + 1] = elements[j]})

RECURSIVE PrefixCount(_, _)
PrefixCount(i, j) ==
    IF j = 0 THEN 0 ELSE PrefixCount(i, j - 1) + PairCount(i, j)

RowTotal(i) == PrefixCount(i, DomainSize)

RECURSIVE TotalUpTo(_)
TotalUpTo(i) == IF i = 0 THEN 0 ELSE TotalUpTo(i - 1) + RowTotal(i)

\* the counts from() works with are the consecutive pairs, n - 1 in all
CountsArePairs ==
    /\ \A i, j \in 1..DomainSize :
           StateFreq(seq, elements)[i][j] = PairCount(i, j)
    /\ IntSum([i \in 1..DomainSize |-> IntSum(StateFreq(seq, elements)[i])])
           = Len(seq) - 1
    /\ TotalUpTo(DomainSize) = Len(seq) - 1

\* C8 as stated: the counts are the consecutive pairs without wraparound,
\* and in a row of non-zero total the entry j is the quotient of the prefix
\* count by the row total; for [a,b,a,c,a,b] the row of a is [0, 2/3, 1].
C8_CumulativeIsExactQuotient ==
    (lastOp = "from" /\ Len(seq) >= 1) =>
        /\ CountsArePairs
        /\ \A i \in 1..DomainSize : RowTotal(i) # 0 =>
               \A j \in 1..DomainSize :
                   cm_dist[i][j] = FDiv(PrefixCount(i, j), RowTotal(i))
        /\ seq = ExampleSeq => cm_dist[1] = <<0, FDiv(2, 3), One>>

\* C8 amended: the counts are the consecutive pairs without wraparound, and
\* in a row of non-zero total the entry j is within (domain size) * 2^-24
\* of the quotient of the prefix count by the row total; for [a,b,a,c,a,b]
\* the row of a is [0, 2/3, 1].
C8_CumulativeIsNearQuotient ==
    (lastOp = "from" /\ Len(seq) >= 1) =>
        /\ CountsArePairs
        /\ \A i \in 1..DomainSize : RowTotal(i) # 0 =>
               \A j \in 1..DomainSize :
                   Abs(cm_dist[i][j] - FDiv(PrefixCount(i, j), RowTotal(i)))
                       <= DomainSize * Grid
        /\ seq = ExampleSeq => cm_dist[1] = <<0, FDiv(2, 3), One>>

\* the table of [a,b,a,c,a,b]
C8_Witness ==
    /\ lastOp = "from"
    /\ seq = ExampleSeq
    /\ PairCount(1, 2) = 2
    /\ PairCount(1, 3) = 1
    /\ RowTotal(3) = 1
    /\ cm_dist[1] = <<0, FDiv(2, 3), One>>

\* ---- C9 ------------------------------------------------------------------
\* the indices of the row whose entry is at least fv
AtLeast(row, fv) == {j \in 0..(Len(row) - 1) : fv <= row[j + 1]}

\* C9: next() samples from a live row and emits the token at the lowest
\* index j with f <= cumulative[r][j], the last index when there is none;
\* in the model of [a,b,a,c,a,b] with the cursor on a, f = 0.5 emits b and
\* f = 0.9 emits c.
C9_FirstIndexAtLeastDraw ==
    Returned =>
        LET row == cm_dist[row_index + 1]
            js == AtLeast(row, f)
        IN  /\ RowIsLive(row)
            /\ f \in 0..(One - 1)
            /\ js # {} => pre_index \in js /\ \A j \in js : pre_index <= j
            /\ js = {} => pre_index = Len(row) - 1
            /\ ret = elements[pre_index + 1]
            /\ (seq = ExampleSeq /\ call_cursor = 0 /\ f = Half) => ret = 2
            /\ (seq = ExampleSeq /\ call_cursor = 0 /\ f = F09) => ret = 3

\* in the model of [a,b,a,c,a,b], a next() with the cursor on a and f = 0.9
C9_Witness ==
    /\ Returned
    /\ seq = ExampleSeq
    /\ call_cursor = 0
    /\ row_index = 0
    /\ ~drew
    /\ f = F09
    /\ ret = 3

\* ---- C10 -----------------------------------------------------------------
\* C10: initialize(), in a state with the cursor on the sentinel or on an
\* index, sets the cursor to the domain size and leaves the domain and the
\* table as they were; a second initialize() stores the same cursor again.
C10_InitializeResets ==
    [][(pc = "idle" /\ pc' = "idle" /\ lastOp' = "initialize") =>
          /\ pre_index' = DomainSize
          /\ elements' = elements
          /\ cm_dist' = cm_dist
          /\ InitializeIndex(elements') = pre_index']_vars

\* an initialize() after a next() has returned a token
C10_Witness ==
    /\ lastOp = "initialize"
    /\ ret # 0
    /\ pre_index = DomainSize
    /\ DomainSize >= 1

\* ---- C11 -----------------------------------------------------------------
\* C11: once the model is constructed, no step of next() or initialize()
\* changes the domain or the cumulative table.
C11_DomainAndTableFixed ==
    [][Built => (elements' = elements /\ cm_dist' = cm_dist)]_vars

\* after two next() calls and an initialize(), the fields from() built
C11_Witness ==
    /\ lastOp = "initialize"
    /\ ret # 0
    /\ call_cursor # DomainSize
    /\ pre_index = DomainSize
    /\ elements = NonDupElements(seq)
    /\ cm_dist = CmDist(StateFreq(seq, elements))

\* ---- C14 -----------------------------------------------------------------
Fresh == pre_index = DomainSize
Anchored == pre_index < DomainSize

\* C14: the model is Fresh right after construction; a next() that returns
\* leaves it Anchored; between calls it is Fresh only right after
\* construction or initialize(); between calls next() and initialize() can
\* both be called.
C14_FreshAnchoredMachine ==
    Built =>
        /\ Fresh \/ Anchored
        /\ lastOp = "from" => Fresh
        /\ Returned => Anchored
        /\ (pc = "idle" /\ Fresh) => lastOp \in {"from", "initialize"}
        /\ pc = "idle" => (ENABLED CallNext /\ ENABLED Initialize)

\* a next() that was called Anchored and returned Anchored
C14_Witness ==
    /\ Returned
    /\ Anchored
    /\ call_cursor < DomainSize
    /\ ~drew

\* ---- C15 -----------------------------------------------------------------
CalledOnDeadRow ==
    /\ call_cursor < DomainSize
    /\ RowIsZero(cm_dist[call_cursor + 1])

CalledOnLiveRow ==
    /\ call_cursor < DomainSize
    /\ RowIsLive(cm_dist[call_cursor + 1])

\* C15: a next() called with the cursor on a dead row resets the cursor to
\* the sentinel before it draws, draws until a row is live, samples from
\* that row and returns Anchored; a next() called with the cursor on a live
\* row samples from that row and draws no row.
C15_DeadRowRestartsInCall ==
    /\ []((Built /\ pc \in {"loop", "sample"} /\ CalledOnDeadRow /\ drew) =>
              pre_index = DomainSize)
    /\ []((Returned /\ CalledOnDeadRow) =>
              /\ drew
              /\ RowIsLive(cm_dist[row_index + 1])
              /\ Anchored)
    /\ [](((pc = "sample" \/ Returned) /\ CalledOnLiveRow) =>
              /\ ~drew
              /\ row_index = call_cursor)
    /\ ((pc = "loop" /\ CalledOnDeadRow) ~> Returned)

\* a next() that was called on a dead row and sampled from another row
C15_Witness ==
    /\ Returned
    /\ CalledOnDeadRow
    /\ drew
    /\ row_index # call_cursor
    /\ ret = elements[pre_index + 1]

\* ---- C17 -----------------------------------------------------------------
\* the number of positions of the training sequence, the last excepted,
\* that hold the domain token i (counted from 1)
OutCount(i) ==
    Cardinality({t \in 1..(Len(seq) - 1) : seq[t] = elements[i]})

DeadRows == {i \in 1..Len(cm_dist) : RowIsZero(cm_dist[i])}

\* C17: the row of a domain token is dead exactly when the token occurs in
\* the training sequence as its final element only; at most one row is
\* dead, and it is the row of the final token.
C17_DeadRowIsFinalTokenOnly ==
    (Built /\ Len(seq) >= 1) =>
        /\ \A i \in 1..DomainSize :
               (i \in DeadRows) <=>
                   (\A t \in 1..Len(seq) : seq[t] = elements[i] => t = Len(seq))
        /\ Cardinality(DeadRows) <= 1
        /\ \A i \in DeadRows : elements[i] = seq[Len(seq)]

\* a table with one dead row, the row of the final token
C17_Witness ==
    /\ Built
    /\ Len(seq) >= 3
    /\ DomainSize >= 2
    /\ Cardinality(DeadRows) = 1
    /\ \E t \in 2..(Len(seq) - 1) : seq[t] = seq[1]

\* ---- C18 -----------------------------------------------------------------
\* C18: for every row of a constructed model, the sum next() tests is zero
\* exactly when the row's total transition count is zero.
C18_RowSumTestMatchesCount ==
    Built =>
        \A i \in 1..DomainSize :
            (RowSum(cm_dist[i]) = 0) <=> (OutCount(i) = 0)

\* next() has found a row live whose first entry is zero, in a table that
\* also has a dead row
C18_Witness ==
    /\ pc = "sample"
    /\ cm_dist[row_index + 1][1] = 0
    /\ OutCount(row_index + 1) > 0
    /\ \E i \in 1..DomainSize : OutCount(i) = 0 /\ RowSum(cm_dist[i]) = 0

\* ---- C12 -----------------------------------------------------------------
\* a next() called with the cursor on the sentinel is about to draw a row
FreshDraw == pc = "loop" /\ Fresh /\ call_cursor = DomainSize /\ DomainSize > 0

\* C12: a next() after initialize() draws its candidate row with equal
\* weight over every index below the domain size, can sample from every
\* live row, and never samples from a dead row.
C12_FreshStartUniformOverLive ==
    /\ FreshDraw =>
        /\ \A i, j \in 0..(DomainSize - 1) :
               DrawWeightExcess(i, DomainSize) = DrawWeightExcess(j, DomainSize)
        /\ \A i \in 0..(DomainSize - 1) : RowIsLive(cm_dist[i + 1]) =>
               ENABLED (LoopDraw(i) /\ pc' = "sample" /\ row_index' = i)
    /\ pc = "sample" => RowIsLive(cm_dist[row_index + 1])

\* ---- C16 -----------------------------------------------------------------
\* C16: every token next() emits is an observed successor of the token of
\* the row it was sampled from, for every draw f in [0, 1), 0 included.
C16_EmittedTransitionWasObserved ==
    Returned =>
        /\ PairCount(row_index + 1, pre_index + 1) > 0
        /\ IF pre_index = 0
           THEN cm_dist[row_index + 1][1] > 0
           ELSE cm_dist[row_index + 1][pre_index + 1]
                    > cm_dist[row_index + 1][pre_index]

====
